---- MODULE Spec2Model ----
(***************************************************************************)
(* Model of helper/storagepacker/storagepacker_v2.go: the sharded storage  *)
(* packer (StoragePackerV2), its bucket index, its pool and bucket locks,  *)
(* its queue mode, and the two storage views it reads and writes.          *)
(*                                                                         *)
(* Strings are modelled as sequences of one-character strings, so that     *)
(* prefixes, slicing and the stripping of "/" are computed, not assumed.   *)
(***************************************************************************)
EXTENDS Integers, Sequences, FiniteSets, TLC

(***************************************************************************)
(* Bounds of the model.                                                    *)
(***************************************************************************)
\* The backend's maximum entry size, in units of EncodedSize.
MaxEntrySize == 1
\* Number of LockedBucket objects that may be live at once.
MaxHandles == 3
\* Number of packers constructed over one behaviour (restarts + 1).
MaxPackers == 2
\* Number of backend I/O errors injected over one behaviour.
MaxFaults == 1
\* Number of PutBucket, GetBucket and DeleteBucket calls over one behaviour.
MaxBucketOps == 2
\* Number of locks in the pool (locksutil.LockCount is 256).
LockCount == 2

(***************************************************************************)
(* Program constants.                                                      *)
(***************************************************************************)
defaultBaseBucketBits == 8
defaultBucketShardBits == 4

(***************************************************************************)
(* Value domains.                                                          *)
(***************************************************************************)
SLASH == "/"
HexChars == <<"0", "1", "2", "3", "4", "5", "6", "7",
              "8", "9", "a", "b", "c", "d", "e", "f">>

\* Item ids a caller uses; "" is the empty id.
ItemIDs == {"ia", "ib"}
EmptyID == ""
\* Item payloads (Item.Message); NilMessage is what GetItem yields for "no item".
Messages == {"m1", "m2"}
NilMessage == "nil"

\* Error values; ErrNil is Go's nil error.
ErrNil == "nil"
ErrValueTooLarge == "put failed due to value being too large"
ErrIO == "backend i/o error"
ErrInvalid == "invalid argument"
ErrDecode == "failed to decode packed storage entry"

\* The empty map (a nil or empty Go map) and map helpers.
EmptyMap == [x \in {} |-> x]
MapPut(f, k, v) == [x \in (DOMAIN f) \cup {k} |-> IF x = k THEN v ELSE f[x]]
MapDel(f, k) == [x \in (DOMAIN f) \ {k} |-> f[x]]
MapRange(f) == {f[x] : x \in DOMAIN f}

(***************************************************************************)
(* Hasher: hex.EncodeToString(cryptoutil.Blake2b256Hash(itemID)).  The     *)
(* digest is a fixed function of the id; the table gives two ids whose     *)
(* digests share their first two characters and differ from the third.     *)
(***************************************************************************)
HashHex(id) ==
    CASE id = "ia" -> <<"0", "0", "0", "1", "2">>
      [] id = "ib" -> <<"0", "0", "2", "0", "5">>
      [] OTHER     -> <<"f", "f", "f", "f", "f">>

IsPrefix(p, s) == Len(p) <= Len(s) /\ SubSeq(s, 1, Len(p)) = p

\* strings.Replace(key, "/", "", -1)
GetCacheKey(key) == SelectSeq(key, LAMBDA c : c # SLASH)

\* radix.Tree.LongestPrefix: the keys of the tree that are prefixes of s.
PrefixKeys(tree, s) == {k \in DOMAIN tree : IsPrefix(k, s)}
LongestPrefixFound(tree, s) == PrefixKeys(tree, s) # {}
\* (LongestPrefixKeyShortest: a lookup that yields the shortest matching key.)
LongestPrefixKeyShortest(tree, s) ==
    CHOOSE k \in PrefixKeys(tree, s) :
        \A j \in PrefixKeys(tree, s) : Len(k) <= Len(j)

LongestPrefixKey(tree, s) ==
    CHOOSE k \in PrefixKeys(tree, s) :
        \A j \in PrefixKeys(tree, s) : Len(j) <= Len(k)

\* Go's % on ints: the remainder takes the sign of the dividend.
GoRem(a, b) == IF a >= 0 THEN a % b ELSE 0 - ((0 - a) % b)

\* Go's ^ on non-negative ints: bitwise exclusive or.
RECURSIVE BitXor(_, _)
BitXor(a, b) ==
    IF a = 0 THEN b
    ELSE IF b = 0 THEN a
    ELSE (((a % 2) + (b % 2)) % 2) + (2 * BitXor(a \div 2, b \div 2))

\* fmt.Sprintf("%x", i)
RECURSIVE FormatHex(_)
FormatHex(i) ==
    IF i < 16 THEN <<HexChars[i + 1]>>
    ELSE FormatHex(i \div 16) \o <<HexChars[(i % 16) + 1]>>

(***************************************************************************)
(* Buckets and their stored form.                                          *)
(*                                                                         *)
(* A LockedBucket is a heap object: Key, ItemMap and Buckets of the        *)
(* embedded Bucket, and the embedded RWMutex as wl (the thread holding     *)
(* the writer lock, 0 for none) and rl (the threads holding it as          *)
(* readers).                                                               *)
(***************************************************************************)
NewBucket(key, items, children) ==
    [Key |-> key, ItemMap |-> items, Buckets |-> children, wl |-> 0, rl |-> {}]

\* &LockedBucket{Bucket: &Bucket{}} : the child shardBucket creates.
EmptyChild == [Key |-> <<>>, ItemMap |-> EmptyMap]

\* proto.Marshal followed by compressutil.Compress with the Snappy type:
\* the stored value carries the compression canary and the record's fields.
EncodeBucket(b) ==
    [comp |-> "snappy", Key |-> b.Key, ItemMap |-> b.ItemMap, Buckets |-> b.Buckets]

\* The length of a message in the stored form: "m2" is twice "m1".
MessageSize(m) == IF m = "m2" THEN 2 ELSE 1

RECURSIVE ItemsSize(_)
ItemsSize(items) ==
    IF DOMAIN items = {} THEN 0
    ELSE LET id == CHOOSE x \in DOMAIN items : TRUE
         IN  MessageSize(items[id]) + ItemsSize(MapDel(items, id))

\* The length the backend compares with its limit: the messages held, and
\* one unit per child record.
EncodedSize(value) ==
    ItemsSize(value.ItemMap) + Cardinality(DOMAIN value.Buckets)

\* DecodeBucket: a value with a known canary is decompressed, one without is
\* parsed as it is; a value that does not parse is an error.
DecodeOK(value) == value.comp \in {"snappy", "none"}
DecodeBucket(entryKey, value) ==
    NewBucket(entryKey, value.ItemMap, value.Buckets)

(***************************************************************************)
(* The physical backend behind BucketStorageView.                          *)
(***************************************************************************)
\* physical.Backend.Put: a value above the limit is refused.
BackendPutErr(value) ==
    IF EncodedSize(value) > MaxEntrySize THEN ErrValueTooLarge ELSE ErrNil

\* strings.Contains(err.Error(), physical.ErrValueTooLarge)
IsTooLarge(err) == err = ErrValueTooLarge

\* (BackendPutDropsEmpty: a put that removes the entry of an empty bucket.)
BackendPutDropsEmpty(store, key, value) ==
    IF DOMAIN value.ItemMap = {} THEN MapDel(store, key) ELSE MapPut(store, key, value)

\* s.BucketStorageView.Put(ctx, &logical.StorageEntry{Key: bucket.Key, Value: ...})
BackendPut(store, key, value) == MapPut(store, key, value)

(***************************************************************************)
(* Lock pool: locksutil.LockForKey hashes the key and indexes the pool.    *)
(***************************************************************************)
CharCode(c) == CHOOSE i \in 0..16 : IF c = SLASH THEN i = 16 ELSE HexChars[i + 1] = c

RECURSIVE KeyHash(_)
KeyHash(key) ==
    IF key = <<>> THEN 0
    ELSE CharCode(Head(key)) + Len(key) + KeyHash(Tail(key))

LockForKey(key) == KeyHash(key) % LockCount

Locks == 0..(LockCount - 1)

(***************************************************************************)
(* State.                                                                  *)
(***************************************************************************)
VARIABLES
    bucketStore,    \* BucketStorageView under "v2/": key -> stored value
    configStore,    \* ConfigStorageView: the entry under "config", or none
    gen,            \* packers constructed so far; 0 before the first
    cfg,            \* the open packer's Config: BaseBucketBits, BucketShardBits
    bucketsCache,   \* radix tree: cache key -> bucket handle
    heap,           \* live LockedBucket objects: handle -> bucket
    queueMode,      \* the atomic flag, 0 or 1
    queuedBuckets,  \* sync.Map: bucket key -> bucket handle
    poolW,          \* storageLocks: lock -> thread holding it as writer, or 0
    poolR,          \* storageLocks: lock -> threads holding it as readers
    poolLeak,       \* storageLocks: lock -> a reader hold was never released
    th,             \* per thread: the call in progress and its locals
    faults,         \* backend I/O errors injected so far
    bucketOps,      \* PutBucket, GetBucket and DeleteBucket calls so far
    hist,           \* per id: the message of the last PutItem, NilMessage
                    \* after a DeleteItem or when there was none
    dirty,          \* keys of the buckets stored while queue mode was on
    prevDel,        \* id of the DeleteItem that returned success last, if
                    \* nothing happened since
    snap            \* what a first packer left on its backend, kept for the
                    \* comparison with a second packer on another backend;
                    \* or the backend, index and queue a FlushQueue call met
\* hist, dirty, prevDel and snap are history variables: no action of the
\* packer reads them, and an action records hist, dirty and prevDel only
\* where its parameter H says so.

vars == <<bucketStore, configStore, gen, cfg, bucketsCache, heap, queueMode,
          queuedBuckets, poolW, poolR, poolLeak, th, faults, bucketOps, hist,
          dirty,
          prevDel, snap>>

storeVars == <<bucketStore, configStore>>
packerVars == <<gen, cfg, bucketsCache, queueMode, queuedBuckets>>
lockVars == <<poolW, poolR, poolLeak>>
ghostVars == <<hist, dirty, prevDel, snap>>
boundVars == <<faults, bucketOps>>

Threads == {1, 2}

\* The backend keys that hold id, and the record of a finished run: the
\* PutItem calls made (per id, the message), the keys the backend holds and,
\* per id, the keys of the stored buckets that hold it.
StoredHolders(store, id) ==
    {k \in DOMAIN store : id \in DOMAIN store[k].ItemMap}
NoSnap ==
    [taken |-> FALSE, calls |-> [id \in ItemIDs |-> NilMessage], keys |-> {},
     holders |-> [id \in ItemIDs |-> {}],
     second |-> FALSE, store |-> EmptyMap, index |-> EmptyMap,
     queue |-> EmptyMap]
Handles == 1..MaxHandles
NoConfigEntry == [present |-> FALSE, base_bucket_bits |-> 0]

\* A thread that is in no call.
IdleTh ==
    [pc |-> "idle", op |-> "none", id |-> EmptyID, msg |-> NilMessage,
     key |-> <<>>, skip |-> FALSE, arg |-> 0,
     bucketKey |-> <<>>, cacheKey |-> <<>>, h |-> 0,
     data |-> EncodeBucket(NewBucket(<<>>, EmptyMap, EmptyMap)),
     todo |-> {}, err |-> ErrNil, val |-> NilMessage, keys |-> {},
     lk |-> 0, cbase |-> 0, cshard |-> 0,
     fault |-> FALSE, stored0 |-> FALSE, tooLarge |-> FALSE, sharded |-> FALSE,
     indexed |-> FALSE, absent |-> FALSE,
     events |-> <<>>, last |-> "none", held |-> {}]

Idle(t) == th[t].pc = "idle"

\* The step leaves the index with other keys, or a key with another bucket:
\* a call's local indexed records that one of its steps did.  Its local
\* absent records that its backend read found no entry.
IndexChanged == bucketsCache' # bucketsCache
SetTh(t, r) == [th EXCEPT ![t] = r]

\* The objects something still points to: the index, the pending writes
\* and the locals of the calls in progress.  The rest is garbage.
Reachable(cache, queued, thr) ==
    (MapRange(cache) \cup MapRange(queued)
        \cup {thr[t].h : t \in Threads} \cup {thr[t].arg : t \in Threads}) \ {0}
Collect(hp, cache, queued, thr) ==
    [h \in (DOMAIN hp) \cap Reachable(cache, queued, thr) |-> hp[h]]

HasFree(hp) == Handles \ DOMAIN hp # {}
FreeHandle(hp) ==
    CHOOSE h \in Handles \ DOMAIN hp : \A g \in Handles \ DOMAIN hp : h <= g

\* The outcomes of one backend call: it succeeds, or (where the
\* specification injects I/O errors, and while the budget lasts) it fails.
IoOutcomes(F) == IF F /\ faults < MaxFaults THEN {"ok", "err"} ELSE {"ok"}
Count(io) == IF io = "err" THEN faults + 1 ELSE faults

\* Lock acquisition on the pool's sync.RWMutex.
\* (CanLockUnchecked: a Lock that does not wait.)
CanLockUnchecked(l) == TRUE
CanLock(l) == poolW[l] = 0 /\ poolR[l] = {} /\ ~poolLeak[l]
CanRLock(l) == poolW[l] = 0

(***************************************************************************)
(* NewStoragePackerV2.                                                     *)
(***************************************************************************)
\* The configurations a caller passes.
ConfigInputs ==
    [BaseBucketBits : {0, 8, 16, 6, -4}, BucketShardBits : {0, 4, 2}]

\* if config.BaseBucketBits == 0 { config.BaseBucketBits = defaultBaseBucketBits }
DefaultBaseBits(b) == IF b = 0 THEN defaultBaseBucketBits ELSE b
\* if config.BucketShardBits == 0 { config.BucketShardBits = defaultBucketShardBits }
DefaultShardBits(b) == IF b = 0 THEN defaultBucketShardBits ELSE b

\* An existing saved configuration dictates BaseBucketBits.
EffectiveBaseBits(b, entry) ==
    IF entry.present THEN entry.base_bucket_bits ELSE DefaultBaseBits(b)

\* var needPersist bool; its only assignment is "needPersist = false".
NeedPersist(entry) == FALSE

\* (ConfigErrorNoMinimum: the checks without the two "at least 4" ones.)
ConfigErrorNoMinimum(base, shard) ==
    IF GoRem(base, 4) # 0 THEN ErrInvalid
    ELSE IF GoRem(shard, 4) # 0 THEN ErrInvalid
    ELSE ErrNil

\* The four checks on the effective bits, in the code's order.
ConfigError(base, shard) ==
    IF GoRem(base, 4) # 0 THEN ErrInvalid
    ELSE IF GoRem(shard, 4) # 0 THEN ErrInvalid
    ELSE IF base < 4 THEN ErrInvalid
    ELSE IF shard < 4 THEN ErrInvalid
    ELSE ErrNil

\* logical.StorageEntryJSON("config", config): BucketShardBits is json:"-".
ConfigEntryJSON(c) == [present |-> TRUE, base_bucket_bits |-> c.BaseBucketBits]

NewStoragePackerV2(t, F, inputs) ==
    /\ \A u \in Threads : Idle(u)
    /\ gen < MaxPackers
    /\ \E in \in inputs, io \in IoOutcomes(F) :
        LET base  == EffectiveBaseBits(in.BaseBucketBits, configStore)
            shard == DefaultShardBits(in.BucketShardBits)
            c     == [BaseBucketBits |-> base, BucketShardBits |-> shard]
            err   == IF io = "err" THEN ErrIO ELSE ConfigError(base, shard)
        IN  /\ faults' = Count(io) /\ UNCHANGED bucketOps
            /\ th' = SetTh(t, [IdleTh EXCEPT !.pc = "ret", !.op = "New",
                                  !.err = err, !.fault = (io = "err"),
                                  !.cbase = base, !.cshard = shard])
            /\ IF err = ErrNil
               THEN /\ gen' = gen + 1
                    /\ cfg' = c
                    /\ configStore' = IF NeedPersist(configStore)
                                      THEN ConfigEntryJSON(c) ELSE configStore
                    /\ bucketsCache' = EmptyMap
                    /\ heap' = EmptyMap
                    /\ queueMode' = 0
                    /\ queuedBuckets' = EmptyMap
                    /\ poolW' = [l \in Locks |-> 0]
                    /\ poolR' = [l \in Locks |-> {}]
                    /\ poolLeak' = [l \in Locks |-> FALSE]
               ELSE UNCHANGED <<gen, cfg, configStore, bucketsCache, heap,
                                queueMode, queuedBuckets, lockVars>>
            /\ dirty' = IF err = ErrNil THEN {} ELSE dirty
            /\ prevDel' = EmptyID
            /\ UNCHANGED <<bucketStore, hist, snap>>

(***************************************************************************)
(* A call returns to its caller.                                           *)
(***************************************************************************)
Return(t, H) ==
    /\ th[t].pc = "ret"
    /\ th' = SetTh(t, IdleTh)
    /\ heap' = Collect(heap, bucketsCache, queuedBuckets, SetTh(t, IdleTh))
    /\ prevDel' = IF H /\ th[t].op = "DeleteItem" /\ th[t].err = ErrNil
                  THEN th[t].id ELSE EmptyID
    /\ UNCHANGED <<storeVars, packerVars, lockVars, boundVars, hist, dirty, snap>>

(***************************************************************************)
(* BucketStorageKeyForItemID.                                              *)
(***************************************************************************)
\* hexVal[0 : s.BaseBucketBits/4]
BaseCacheKey(id) == SubSeq(HashHex(id), 1, cfg.BaseBucketBits \div 4)

\* The key the routine returns for what LongestPrefix(hexVal) yields: the
\* found bucket's Key, or else the base-level prefix of the digest.
RoutedKey(id) ==
    IF LongestPrefixFound(bucketsCache, HashHex(id))
    THEN heap[bucketsCache[LongestPrefixKey(bucketsCache, HashHex(id))]].Key
    ELSE BaseCacheKey(id)

\* First lookup, under the index lock only.  A hit returns at once; a miss
\* goes on to the second lookup under a pool lock.
KeyFirst(r, id) ==
    IF LongestPrefixFound(bucketsCache, HashHex(id))
    THEN [r EXCEPT !.pc = "lock", !.bucketKey = RoutedKey(id)]
    ELSE [r EXCEPT !.pc = "key2", !.cacheKey = BaseCacheKey(id)]

\* Second lookup: lock.RLock on the pool lock of the base prefix, look up
\* again, lock.RUnlock.
KeySecond(t) ==
    /\ th[t].pc = "key2"
    /\ CanRLock(LockForKey(th[t].cacheKey))
    /\ th' = SetTh(t, [th[t] EXCEPT !.pc = "lock",
                                    !.bucketKey = RoutedKey(th[t].id)])
    /\ UNCHANGED <<storeVars, packerVars, heap, lockVars, boundVars, ghostVars>>

(***************************************************************************)
(* PutItem, GetItem, DeleteItem: entry and argument checks.                *)
(***************************************************************************)
NilItem == [nil |-> TRUE, ID |-> EmptyID, Message |-> NilMessage]
ItemInputs(msgs) ==
    {NilItem} \cup [nil : {FALSE}, ID : ItemIDs \cup {EmptyID}, Message : msgs]

\* What GetItem would find for id in this state: the precondition "id is
\* stored" of the claims about DeleteItem.
ItemStored(id) ==
    IF LongestPrefixFound(bucketsCache, HashHex(id))
    THEN id \in DOMAIN heap[bucketsCache[LongestPrefixKey(bucketsCache, HashHex(id))]].ItemMap
    ELSE /\ BaseCacheKey(id) \in DOMAIN bucketStore
         /\ DecodeOK(bucketStore[BaseCacheKey(id)])
         /\ id \in DOMAIN bucketStore[BaseCacheKey(id)].ItemMap

\* (InvalidItemNilOnly: without the check of the ID.)
InvalidItemNilOnly(item) == item.nil

\* if item == nil ...; if item.ID == "" ...
InvalidItem(item) == item.nil \/ item.ID = EmptyID

CallPutItem(t, msgs) ==
    /\ Idle(t) /\ gen > 0
    /\ \E item \in ItemInputs(msgs) :
        LET r == [IdleTh EXCEPT !.op = "PutItem", !.id = item.ID,
                                !.msg = item.Message]
        IN  th' = SetTh(t, IF InvalidItem(item)
                           THEN [r EXCEPT !.pc = "ret", !.err = ErrInvalid]
                           ELSE KeyFirst(r, item.ID))
    /\ UNCHANGED <<storeVars, packerVars, heap, lockVars, boundVars, ghostVars>>

CallGetItem(t) ==
    /\ Idle(t) /\ gen > 0
    /\ \E id \in ItemIDs \cup {EmptyID} :
        LET r == [IdleTh EXCEPT !.op = "GetItem", !.id = id]
        IN  th' = SetTh(t, IF id = EmptyID
                           THEN [r EXCEPT !.pc = "ret", !.err = ErrInvalid]
                           ELSE KeyFirst(r, id))
    /\ UNCHANGED <<storeVars, packerVars, heap, lockVars, boundVars, ghostVars>>

CallDeleteItem(t) ==
    /\ Idle(t) /\ gen > 0
    /\ \E id \in ItemIDs \cup {EmptyID} :
        LET r == [IdleTh EXCEPT !.op = "DeleteItem", !.id = id]
        IN  th' = SetTh(t, IF id = EmptyID
                           THEN [r EXCEPT !.pc = "ret", !.err = ErrInvalid]
                           ELSE KeyFirst([r EXCEPT !.stored0 = ItemStored(id)], id))
    /\ UNCHANGED <<storeVars, packerVars, heap, lockVars, boundVars, ghostVars>>

(***************************************************************************)
(* PutItem, GetItem, DeleteItem: the pool lock and the index lookup.       *)
(* PutItem and DeleteItem take the lock as writers, GetItem as a reader.   *)
(***************************************************************************)
IsItemOp(op) == op \in {"PutItem", "GetItem", "DeleteItem"}

\* The message the last writer of an id leaves behind.
Written(r) == IF r.op = "PutItem" THEN r.msg ELSE NilMessage

ItemLock(t, H) ==
    LET r  == th[t]
        ck == GetCacheKey(r.bucketKey)
        l  == LockForKey(ck)
        found == LongestPrefixFound(bucketsCache, ck)
    IN  /\ r.pc = "lock" /\ IsItemOp(r.op)
        /\ IF r.op = "GetItem"
           THEN /\ CanRLock(l)
                /\ poolR' = [poolR EXCEPT ![l] = @ \cup {t}]
                /\ UNCHANGED <<poolW, hist>>
           ELSE /\ CanLock(l)
                /\ poolW' = [poolW EXCEPT ![l] = t]
                /\ hist' = IF H THEN [hist EXCEPT ![r.id] = Written(r)] ELSE hist
                /\ UNCHANGED poolR
        /\ th' = SetTh(t, [r EXCEPT
                 !.cacheKey = ck,
                 !.pc = IF found THEN "bucket" ELSE "get",
                 !.h = IF found THEN bucketsCache[LongestPrefixKey(bucketsCache, ck)]
                       ELSE 0])
        /\ UNCHANGED <<storeVars, packerVars, heap, poolLeak, boundVars, dirty,
                       prevDel, snap>>

\* The deferred lock.Unlock / lock.RUnlock of an item operation.
PoolWAfter(t, r) ==
    IF r.op = "GetItem" THEN poolW
    ELSE [poolW EXCEPT ![LockForKey(r.cacheKey)] = 0]
PoolRAfter(t, r) ==
    IF r.op = "GetItem"
    THEN [poolR EXCEPT ![LockForKey(r.cacheKey)] = @ \ {t}]
    ELSE poolR

(***************************************************************************)
(* PutItem, GetItem, DeleteItem: the index missed, read the backend.       *)
(***************************************************************************)
\* (MissReturnsNilNever: every operation goes on with a new bucket.)
MissReturnsNilNever(op) == FALSE

\* if storageEntry == nil: GetItem and DeleteItem return nil, PutItem goes
\* on with a new bucket.
MissReturnsNil(op) == op # "PutItem"

ItemGet(t, F) ==
    LET r == th[t]
        present == r.bucketKey \in DOMAIN bucketStore
        h == FreeHandle(heap)
    IN  /\ r.pc = "get" /\ IsItemOp(r.op)
        /\ \E io \in IoOutcomes(F) :
            /\ faults' = Count(io) /\ UNCHANGED bucketOps
            /\ IF io = "err"
               THEN \* BucketStorageView.Get failed
                    /\ th' = SetTh(t, [r EXCEPT !.pc = "ret", !.err = ErrIO,
                                                !.fault = TRUE])
                    /\ poolW' = PoolWAfter(t, r) /\ poolR' = PoolRAfter(t, r)
                    /\ UNCHANGED <<bucketsCache, heap>>
               ELSE IF ~present /\ MissReturnsNil(r.op)
               THEN \* storageEntry == nil: GetItem and DeleteItem return nil
                    /\ th' = SetTh(t, [r EXCEPT !.pc = "ret", !.absent = TRUE])
                    /\ poolW' = PoolWAfter(t, r) /\ poolR' = PoolRAfter(t, r)
                    /\ UNCHANGED <<bucketsCache, heap>>
               ELSE IF present /\ ~DecodeOK(bucketStore[r.bucketKey])
               THEN /\ th' = SetTh(t, [r EXCEPT !.pc = "ret", !.err = ErrDecode])
                    /\ poolW' = PoolWAfter(t, r) /\ poolR' = PoolRAfter(t, r)
                    /\ UNCHANGED <<bucketsCache, heap>>
               ELSE \* a new bucket (PutItem) or the decoded one goes into the index
                    /\ HasFree(heap)
                    /\ heap' = MapPut(heap, h,
                                 IF present
                                 THEN DecodeBucket(r.bucketKey, bucketStore[r.bucketKey])
                                 ELSE NewBucket(r.bucketKey, EmptyMap, EmptyMap))
                    /\ bucketsCache' = MapPut(bucketsCache, r.cacheKey, h)
                    /\ th' = SetTh(t, [r EXCEPT !.pc = "bucket", !.h = h,
                                                !.absent = ~present,
                                                !.indexed = IndexChanged])
                    /\ UNCHANGED <<poolW, poolR>>
        /\ UNCHANGED <<storeVars, gen, cfg, queueMode, queuedBuckets, poolLeak,
                       ghostVars>>

(***************************************************************************)
(* LockedBucket.upsert, the removal in DeleteItem, and storeBucket.        *)
(***************************************************************************)
\* (UpsertKeepFirst: an upsert that inserts but does not update.)
UpsertKeepFirst(b, id, msg) ==
    IF id \in DOMAIN b.ItemMap THEN b ELSE [b EXCEPT !.ItemMap = MapPut(@, id, msg)]

\* s.ItemMap[item.ID] = item.Message
Upsert(b, id, msg) == [b EXCEPT !.ItemMap = MapPut(@, id, msg)]

\* (RemoveItemClears: a removal that empties the bucket.)
RemoveItemClears(b, id) == [b EXCEPT !.ItemMap = EmptyMap]

\* delete(bucket.ItemMap, itemID)
RemoveItem(b, id) == [b EXCEPT !.ItemMap = MapDel(@, id)]

\* (DeleteIsNoopEmptyOnly: without the check that the id is there.)
DeleteIsNoopEmptyOnly(b, id) == DOMAIN b.ItemMap = {}

\* DeleteItem returns before any write when the bucket has no items or
\* lacks the id.
DeleteIsNoop(b, id) == DOMAIN b.ItemMap = {} \/ id \notin DOMAIN b.ItemMap

\* The item GetItem returns: nil when the bucket has no items or lacks the id.
Lookup(b, id) == IF id \in DOMAIN b.ItemMap THEN b.ItemMap[id] ELSE NilMessage

\* (QueueModeNever: a storeBucket that does not look at the flag.)
QueueModeNever(flag) == FALSE

\* storeBucket: atomic.LoadUint32(&s.queueMode) == 1
QueueModeOn(flag) == flag = 1

\* storeBucket: s.queuedBuckets.Store(bucket.Key, bucket)
StoreQueued(queued, key, h) == MapPut(queued, key, h)

\* What PutItem and DeleteItem return for the error of storeBucket.
ItemStoreResult(err) == err

(***************************************************************************)
(* PutItem, GetItem, DeleteItem: the bucket's own lock, the change in      *)
(* memory and the head of storeBucket (the flag, and with the flag off     *)
(* the marshalling of the bucket).                                         *)
(***************************************************************************)
ItemBucket(t, H) ==
    LET r == th[t]
        b == heap[r.h]
        nb == IF r.op = "PutItem" THEN Upsert(b, r.id, r.msg)
              ELSE RemoveItem(b, r.id)
    IN  /\ r.pc = "bucket" /\ IsItemOp(r.op)
        /\ IF r.op = "GetItem"
           THEN \* bucket.RLock, read, bucket.RUnlock
                /\ b.wl = 0
                /\ th' = SetTh(t, [r EXCEPT !.pc = "ret", !.val = Lookup(b, r.id)])
                /\ poolW' = PoolWAfter(t, r) /\ poolR' = PoolRAfter(t, r)
                /\ UNCHANGED <<heap, queuedBuckets, dirty>>
           ELSE /\ b.wl = 0 /\ b.rl = {}
                /\ IF r.op = "DeleteItem" /\ DeleteIsNoop(b, r.id)
                   THEN /\ th' = SetTh(t, [r EXCEPT !.pc = "ret"])
                        /\ poolW' = PoolWAfter(t, r) /\ poolR' = PoolRAfter(t, r)
                        /\ UNCHANGED <<heap, queuedBuckets, dirty>>
                   ELSE IF QueueModeOn(queueMode)
                   THEN /\ heap' = [heap EXCEPT ![r.h] = nb]
                        /\ queuedBuckets' = StoreQueued(queuedBuckets, b.Key, r.h)
                        /\ dirty' = IF H THEN dirty \cup {b.Key} ELSE dirty
                        /\ th' = SetTh(t, [r EXCEPT !.pc = "ret",
                                               !.err = ItemStoreResult(ErrNil)])
                        /\ poolW' = PoolWAfter(t, r) /\ poolR' = PoolRAfter(t, r)
                   ELSE /\ heap' = [heap EXCEPT ![r.h] = [nb EXCEPT !.wl = t]]
                        /\ th' = SetTh(t, [r EXCEPT !.pc = "put",
                                               !.data = EncodeBucket(nb)])
                        /\ UNCHANGED <<poolW, poolR, queuedBuckets, dirty>>
        /\ UNCHANGED <<storeVars, gen, cfg, bucketsCache, queueMode, poolLeak,
                       boundVars, hist, prevDel, snap>>

(***************************************************************************)
(* PutItem, DeleteItem: the backend put that ends storeBucket, then the    *)
(* deferred unlocks.                                                       *)
(***************************************************************************)
ItemPut(t, F) ==
    LET r == th[t]
    IN  /\ r.pc = "put" /\ IsItemOp(r.op)
        /\ \E io \in IoOutcomes(F) :
            LET err == IF io = "err" THEN ErrIO ELSE BackendPutErr(r.data)
            IN  /\ faults' = Count(io) /\ UNCHANGED bucketOps
                /\ bucketStore' = IF err = ErrNil
                                  THEN BackendPut(bucketStore, heap[r.h].Key, r.data)
                                  ELSE bucketStore
                /\ th' = SetTh(t, [r EXCEPT !.pc = "ret",
                                            !.err = ItemStoreResult(err),
                                            !.fault = (io = "err"),
                                            !.tooLarge = IsTooLarge(err)])
        /\ heap' = [heap EXCEPT ![r.h].wl = 0]
        /\ poolW' = PoolWAfter(t, r) /\ poolR' = PoolRAfter(t, r)
        /\ UNCHANGED <<configStore, packerVars, poolLeak, ghostVars>>

(***************************************************************************)
(* SetQueueMode and FlushQueue.                                            *)
(***************************************************************************)
SetQueueMode(t) ==
    /\ Idle(t) /\ gen > 0
    /\ \E enabled \in BOOLEAN : queueMode' = IF enabled THEN 1 ELSE 0
    /\ prevDel' = EmptyID
    /\ UNCHANGED <<storeVars, gen, cfg, bucketsCache, heap, queuedBuckets,
                   lockVars, th, boundVars, hist, dirty, snap>>

\* queuedBuckets.Range visits the keys the map held when it began.
CallFlushQueue(t) ==
    /\ Idle(t) /\ gen > 0
    /\ th' = SetTh(t, [IdleTh EXCEPT !.op = "FlushQueue", !.pc = "fl_next",
                                     !.todo = DOMAIN queuedBuckets])
    /\ UNCHANGED <<storeVars, packerVars, heap, lockVars, boundVars, ghostVars>>

\* (FlushDeleteKeeps: a visit that leaves the key in the map.)
FlushDeleteKeeps(queued, key) == queued

\* s.queuedBuckets.Delete(key)
FlushDelete(queued, key) == MapDel(queued, key)

\* One visit of Range: storeBucket on the value, up to its backend put.  With
\* the flag on, storeBucket stores the bucket back under its key and the
\* visit then deletes the visited key.
FlushNext(t) ==
    LET r == th[t]
    IN  /\ r.pc = "fl_next"
        /\ IF r.todo = {}
           THEN /\ th' = SetTh(t, [r EXCEPT !.pc = "ret", !.h = 0])
                /\ UNCHANGED <<queuedBuckets, heap>>
           ELSE \E k \in r.todo :
                IF k \notin DOMAIN queuedBuckets
                THEN /\ th' = SetTh(t, [r EXCEPT !.todo = @ \ {k}])
                     /\ UNCHANGED <<queuedBuckets, heap>>
                ELSE LET h == queuedBuckets[k]
                         q == FlushDelete(StoreQueued(queuedBuckets, heap[h].Key, h), k)
                         nr == [r EXCEPT !.todo = @ \ {k}, !.h = 0]
                     IN  IF QueueModeOn(queueMode)
                         THEN /\ queuedBuckets' = q
                              /\ th' = SetTh(t, nr)
                              /\ heap' = Collect(heap, bucketsCache, q, SetTh(t, nr))
                         ELSE /\ th' = SetTh(t, [r EXCEPT !.pc = "fl_put",
                                      !.todo = @ \ {k}, !.key = k, !.h = h,
                                      !.data = EncodeBucket(heap[h])])
                              /\ UNCHANGED <<queuedBuckets, heap>>
        /\ UNCHANGED <<storeVars, gen, cfg, bucketsCache, queueMode, lockVars,
                       boundVars, ghostVars>>

\* The backend put of the visit, the append to the multierror, and
\* queuedBuckets.Delete(key).
FlushPut(t, F) ==
    LET r == th[t]
        q == FlushDelete(queuedBuckets, r.key)
    IN  /\ r.pc = "fl_put"
        /\ \E io \in IoOutcomes(F) :
            LET err == IF io = "err" THEN ErrIO ELSE BackendPutErr(r.data)
                nr == [r EXCEPT !.pc = "fl_next", !.h = 0, !.key = <<>>,
                                !.data = IdleTh.data,
                                !.err = IF err = ErrNil THEN @ ELSE err,
                                !.fault = @ \/ (io = "err"),
                                !.tooLarge = @ \/ IsTooLarge(err)]
            IN  /\ faults' = Count(io) /\ UNCHANGED bucketOps
                /\ bucketStore' = IF err = ErrNil
                                  THEN BackendPut(bucketStore, heap[r.h].Key, r.data)
                                  ELSE bucketStore
                /\ th' = SetTh(t, nr)
                /\ heap' = Collect(heap, bucketsCache, q, SetTh(t, nr))
        /\ queuedBuckets' = q
        /\ UNCHANGED <<configStore, gen, cfg, bucketsCache, queueMode, lockVars,
                       ghostVars>>

(***************************************************************************)
(* PutBucket and shardBucket.                                              *)
(***************************************************************************)
\* The bucket keys a caller passes to PutBucket, GetBucket and DeleteBucket.
BucketKeyInputs == {<<>>, <<"0">>, <<"0", "0">>}
\* The contents of the buckets a caller builds for PutBucket.
ItemMapInputs == {[x \in {"ia"} |-> "m1"], [x \in {"ia", "ib"} |-> "m1"]}

\* for i := 0; i < 2^s.BucketShardBits; i++ : in Go, ^ is exclusive or.
ShardCount(shardBits) == BitXor(2, shardBits)

\* bucket.Buckets[fmt.Sprintf("%x", i)] = shardedBucket, for each i of the loop.
ShardLabels(shardBits) == {FormatHex(i) : i \in 0..(ShardCount(shardBits) - 1)}
AddShards(b, shardBits) ==
    [b EXCEPT !.Buckets =
        [lab \in (DOMAIN @) \cup ShardLabels(shardBits) |-> EmptyChild]]

\* PutBucket: the error it goes on with after storeBucket failed.  Only the
\* too-large error is replaced, by what shardBucket returns.
PutBucketShards(err) == IsTooLarge(err)

\* A caller passes nil, a bucket it built, or one GetBucket handed out.
CallPutBucket(t) ==
    LET r == [IdleTh EXCEPT !.op = "PutBucket"]
        h == FreeHandle(heap)
    IN  /\ Idle(t) /\ gen > 0
        /\ \/ /\ th' = SetTh(t, [r EXCEPT !.pc = "ret", !.err = ErrInvalid])
              /\ UNCHANGED heap
           \/ \E key \in BucketKeyInputs, items \in ItemMapInputs :
                IF key = <<>>
                THEN /\ th' = SetTh(t, [r EXCEPT !.pc = "ret", !.err = ErrInvalid])
                     /\ UNCHANGED heap
                ELSE /\ HasFree(heap)
                     /\ heap' = MapPut(heap, h, NewBucket(key, items, EmptyMap))
                     /\ th' = SetTh(t, [r EXCEPT !.pc = "pb_lock", !.arg = h])
           \/ \E g \in MapRange(bucketsCache) :
                /\ th' = SetTh(t, [r EXCEPT !.pc = "pb_lock", !.arg = g])
                /\ UNCHANGED heap
        /\ bucketOps < MaxBucketOps /\ bucketOps' = bucketOps + 1
        /\ UNCHANGED <<storeVars, packerVars, lockVars, faults, ghostVars>>

\* lock := locksutil.LockForKey(s.storageLocks, cacheKey); lock.Lock()
PutBucketLock(t) ==
    LET r  == th[t]
        ck == GetCacheKey(heap[r.arg].Key)
    IN  /\ r.pc = "pb_lock"
        /\ CanLock(LockForKey(ck))
        /\ poolW' = [poolW EXCEPT ![LockForKey(ck)] = t]
        /\ th' = SetTh(t, [r EXCEPT !.pc = "pb_bucket", !.cacheKey = ck])
        /\ UNCHANGED <<storeVars, packerVars, heap, poolR, poolLeak, boundVars,
                       ghostVars>>

\* bucket.Lock() and the head of storeBucket.  With the flag on the bucket is
\* queued, goes into the index, and the call returns.
PutBucketStore(t, H) ==
    LET r == th[t]
        b == heap[r.arg]
    IN  /\ r.pc = "pb_bucket"
        /\ b.wl = 0 /\ b.rl = {}
        /\ IF QueueModeOn(queueMode)
           THEN /\ queuedBuckets' = StoreQueued(queuedBuckets, b.Key, r.arg)
                /\ dirty' = IF H THEN dirty \cup {b.Key} ELSE dirty
                /\ bucketsCache' = MapPut(bucketsCache, GetCacheKey(b.Key), r.arg)
                /\ poolW' = [poolW EXCEPT ![LockForKey(r.cacheKey)] = 0]
                /\ th' = SetTh(t, [r EXCEPT !.pc = "ret", !.indexed = IndexChanged])
                /\ heap' = Collect(heap, bucketsCache', queuedBuckets', th')
           ELSE /\ heap' = [heap EXCEPT ![r.arg].wl = t]
                /\ th' = SetTh(t, [r EXCEPT !.pc = "pb_put", !.data = EncodeBucket(b)])
                /\ UNCHANGED <<queuedBuckets, dirty, bucketsCache, poolW>>
        /\ UNCHANGED <<storeVars, gen, cfg, queueMode, poolR, poolLeak, boundVars,
                       hist, prevDel, snap>>

\* The backend put of storeBucket.  On the too-large error shardBucket runs
\* its loop and heads for a pool lock: hexVal is no variable of shardBucket,
\* so the lock it names may be any of the pool.
PutBucketPut(t, F) ==
    LET r == th[t]
        b == heap[r.arg]
    IN  /\ r.pc = "pb_put"
        /\ \E io \in IoOutcomes(F), l \in Locks :
            LET err == IF io = "err" THEN ErrIO ELSE BackendPutErr(r.data)
            IN  /\ faults' = Count(io) /\ UNCHANGED bucketOps
                /\ IF err = ErrNil
                   THEN /\ bucketStore' = BackendPut(bucketStore, b.Key, r.data)
                        /\ bucketsCache' = MapPut(bucketsCache, GetCacheKey(b.Key), r.arg)
                        /\ poolW' = [poolW EXCEPT ![LockForKey(r.cacheKey)] = 0]
                        /\ th' = SetTh(t, [r EXCEPT !.pc = "ret",
                                                    !.indexed = IndexChanged])
                        /\ heap' = Collect([heap EXCEPT ![r.arg].wl = 0],
                                           bucketsCache', queuedBuckets, th')
                   ELSE IF PutBucketShards(err)
                   THEN /\ heap' = [heap EXCEPT
                                      ![r.arg] = AddShards(b, cfg.BucketShardBits)]
                        /\ th' = SetTh(t, [r EXCEPT !.pc = "pb_shard", !.lk = l,
                                                    !.tooLarge = TRUE])
                        /\ UNCHANGED <<bucketStore, bucketsCache, poolW>>
                   ELSE /\ l = 0
                        /\ heap' = [heap EXCEPT ![r.arg].wl = 0]
                        /\ poolW' = [poolW EXCEPT ![LockForKey(r.cacheKey)] = 0]
                        /\ th' = SetTh(t, [r EXCEPT !.pc = "ret", !.err = err,
                                                    !.fault = (io = "err")])
                        /\ UNCHANGED <<bucketStore, bucketsCache>>
        /\ UNCHANGED <<configStore, gen, cfg, queueMode, queuedBuckets, poolR,
                       poolLeak, ghostVars>>

\* shardBucket's lock.RLock(), never released, and its end without a return
\* value; PutBucket then puts the bucket into the index and returns nil.
ShardBucket(t) ==
    LET r == th[t]
        b == heap[r.arg]
    IN  /\ r.pc = "pb_shard"
        /\ CanRLock(r.lk)
        /\ poolLeak' = [poolLeak EXCEPT ![r.lk] = TRUE]
        /\ bucketsCache' = MapPut(bucketsCache, GetCacheKey(b.Key), r.arg)
        /\ poolW' = [poolW EXCEPT ![LockForKey(r.cacheKey)] = 0]
        /\ th' = SetTh(t, [r EXCEPT !.pc = "ret", !.sharded = TRUE, !.lk = 0,
                                    !.indexed = IndexChanged])
        /\ heap' = Collect([heap EXCEPT ![r.arg].wl = 0],
                           bucketsCache', queuedBuckets, th')
        /\ UNCHANGED <<storeVars, gen, cfg, queueMode, queuedBuckets, poolR,
                       boundVars, ghostVars>>

(***************************************************************************)
(* GetBucket.                                                              *)
(***************************************************************************)
CallGetBucket(t) ==
    /\ Idle(t) /\ gen > 0
    /\ \E key \in BucketKeyInputs, skipCache \in BOOLEAN :
        LET r == [IdleTh EXCEPT !.op = "GetBucket", !.key = key,
                                !.skip = skipCache,
                                !.cacheKey = GetCacheKey(key)]
        IN  th' = SetTh(t, IF key = <<>>
                           THEN [r EXCEPT !.pc = "ret", !.err = ErrInvalid]
                           ELSE [r EXCEPT !.pc = "gb_rlock"])
    /\ bucketOps < MaxBucketOps /\ bucketOps' = bucketOps + 1
        /\ UNCHANGED <<storeVars, packerVars, heap, lockVars, faults, ghostVars>>

\* The bucket LongestPrefix(cacheKey) yields, 0 when it finds none.
CachedBucket(ck) ==
    IF LongestPrefixFound(bucketsCache, ck)
    THEN bucketsCache[LongestPrefixKey(bucketsCache, ck)]
    ELSE 0

\* if found && !skipCache
ServeFromCache(ck, skipCache) == CachedBucket(ck) # 0 /\ ~skipCache

\* First lookup under lock.RLock(); a hit is returned.
GetBucketRLock(t) ==
    LET r == th[t]
    IN  /\ r.pc = "gb_rlock"
        /\ CanRLock(LockForKey(r.cacheKey))
        /\ th' = SetTh(t, IF ServeFromCache(r.cacheKey, r.skip)
                          THEN [r EXCEPT !.pc = "ret", !.h = CachedBucket(r.cacheKey)]
                          ELSE [r EXCEPT !.pc = "gb_lock"])
        /\ UNCHANGED <<storeVars, packerVars, heap, lockVars, boundVars, ghostVars>>

\* Second lookup under lock.Lock(); a hit is returned and the lock released.
GetBucketLock(t) ==
    LET r == th[t]
    IN  /\ r.pc = "gb_lock"
        /\ CanLock(LockForKey(r.cacheKey))
        /\ IF ServeFromCache(r.cacheKey, r.skip)
           THEN /\ th' = SetTh(t, [r EXCEPT !.pc = "ret",
                                            !.h = CachedBucket(r.cacheKey)])
                /\ UNCHANGED poolW
           ELSE /\ th' = SetTh(t, [r EXCEPT !.pc = "gb_get"])
                /\ poolW' = [poolW EXCEPT ![LockForKey(r.cacheKey)] = t]
        /\ UNCHANGED <<storeVars, packerVars, heap, poolR, poolLeak, boundVars,
                       ghostVars>>

\* Read from the underlying view, decode, insert under the cache key.
GetBucketGet(t, F) ==
    LET r == th[t]
        present == r.key \in DOMAIN bucketStore
        h == FreeHandle(heap)
    IN  /\ r.pc = "gb_get"
        /\ \E io \in IoOutcomes(F) :
            /\ faults' = Count(io) /\ UNCHANGED bucketOps
            /\ IF io = "err"
               THEN /\ th' = SetTh(t, [r EXCEPT !.pc = "ret", !.err = ErrIO,
                                                !.fault = TRUE])
                    /\ UNCHANGED <<bucketsCache, heap>>
               ELSE IF ~present
               THEN /\ th' = SetTh(t, [r EXCEPT !.pc = "ret", !.absent = TRUE])
                    /\ UNCHANGED <<bucketsCache, heap>>
               ELSE IF ~DecodeOK(bucketStore[r.key])
               THEN /\ th' = SetTh(t, [r EXCEPT !.pc = "ret", !.err = ErrDecode])
                    /\ UNCHANGED <<bucketsCache, heap>>
               ELSE /\ HasFree(heap)
                    /\ bucketsCache' = MapPut(bucketsCache, r.cacheKey, h)
                    /\ th' = SetTh(t, [r EXCEPT !.pc = "ret", !.h = h,
                                                !.indexed = IndexChanged])
                    /\ heap' = Collect(
                           MapPut(heap, h, DecodeBucket(r.key, bucketStore[r.key])),
                           bucketsCache', queuedBuckets, th')
        /\ poolW' = [poolW EXCEPT ![LockForKey(r.cacheKey)] = 0]
        /\ UNCHANGED <<storeVars, gen, cfg, queueMode, queuedBuckets, poolR,
                       poolLeak, ghostVars>>

(***************************************************************************)
(* DeleteBucket.                                                           *)
(***************************************************************************)
CallDeleteBucket(t) ==
    /\ Idle(t) /\ gen > 0
    /\ \E key \in BucketKeyInputs :
        LET r == [IdleTh EXCEPT !.op = "DeleteBucket", !.key = key,
                                !.cacheKey = GetCacheKey(key)]
        IN  th' = SetTh(t, IF key = <<>>
                           THEN [r EXCEPT !.pc = "ret", !.err = ErrInvalid]
                           ELSE [r EXCEPT !.pc = "db_lock"])
    /\ bucketOps < MaxBucketOps /\ bucketOps' = bucketOps + 1
        /\ UNCHANGED <<storeVars, packerVars, heap, lockVars, faults, ghostVars>>

DeleteBucketLock(t) ==
    LET r == th[t]
    IN  /\ r.pc = "db_lock"
        /\ CanLock(LockForKey(r.cacheKey))
        /\ poolW' = [poolW EXCEPT ![LockForKey(r.cacheKey)] = t]
        /\ th' = SetTh(t, [r EXCEPT !.pc = "db_del"])
        /\ UNCHANGED <<storeVars, packerVars, heap, poolR, poolLeak, boundVars,
                       ghostVars>>

\* BucketStorageView.Delete, then bucketsCache.Delete(cacheKey).
DeleteBucketDel(t, F) ==
    LET r == th[t]
    IN  /\ r.pc = "db_del"
        /\ \E io \in IoOutcomes(F) :
            /\ faults' = Count(io) /\ UNCHANGED bucketOps
            /\ IF io = "err"
               THEN /\ th' = SetTh(t, [r EXCEPT !.pc = "ret", !.err = ErrIO,
                                                !.fault = TRUE])
                    /\ UNCHANGED <<bucketStore, bucketsCache, heap>>
               ELSE /\ bucketStore' = MapDel(bucketStore, r.key)
                    /\ bucketsCache' = MapDel(bucketsCache, r.cacheKey)
                    /\ th' = SetTh(t, [r EXCEPT !.pc = "ret",
                                                !.indexed = IndexChanged])
                    /\ heap' = Collect(heap, bucketsCache', queuedBuckets, th')
        /\ poolW' = [poolW EXCEPT ![LockForKey(r.cacheKey)] = 0]
        /\ UNCHANGED <<configStore, gen, cfg, queueMode, queuedBuckets, poolR,
                       poolLeak, ghostVars>>

(***************************************************************************)
(* BucketKeys.                                                             *)
(***************************************************************************)
CallBucketKeys(t) ==
    /\ Idle(t) /\ gen > 0
    /\ th' = SetTh(t, [IdleTh EXCEPT !.op = "BucketKeys", !.pc = "bk_list"])
    /\ UNCHANGED <<storeVars, packerVars, heap, lockVars, boundVars, ghostVars>>

\* logical.CollectKeys(ctx, s.BucketStorageView)
BucketKeysList(t, F) ==
    LET r == th[t]
    IN  /\ r.pc = "bk_list"
        /\ \E io \in IoOutcomes(F) :
            /\ faults' = Count(io) /\ UNCHANGED bucketOps
            /\ th' = SetTh(t, IF io = "err"
                              THEN [r EXCEPT !.pc = "ret", !.err = ErrIO,
                                             !.fault = TRUE]
                              ELSE [r EXCEPT !.pc = "bk_walk",
                                             !.keys = DOMAIN bucketStore])
        /\ UNCHANGED <<storeVars, packerVars, heap, lockVars, ghostVars>>

\* bucketsCache.Walk under the index lock adds the cached keys.
BucketKeysWalk(t) ==
    LET r == th[t]
    IN  /\ r.pc = "bk_walk"
        /\ th' = SetTh(t, [r EXCEPT !.pc = "ret",
                                    !.keys = @ \cup DOMAIN bucketsCache])
        /\ UNCHANGED <<storeVars, packerVars, heap, lockVars, boundVars, ghostVars>>

(***************************************************************************)
(* Initial states and specifications.                                      *)
(***************************************************************************)
\* Before the first packer is constructed: empty bucket storage, and a
\* config view that holds no entry or one an earlier deployment left.
StoredConfigs == {NoConfigEntry} \cup [present : {TRUE}, base_bucket_bits : {8, 6}]

InitWith(stored) ==
    /\ bucketStore = EmptyMap
    /\ configStore \in stored
    /\ gen = 0
    /\ cfg = [BaseBucketBits |-> 0, BucketShardBits |-> 0]
    /\ bucketsCache = EmptyMap
    /\ heap = EmptyMap
    /\ queueMode = 0
    /\ queuedBuckets = EmptyMap
    /\ poolW = [l \in Locks |-> 0]
    /\ poolR = [l \in Locks |-> {}]
    /\ poolLeak = [l \in Locks |-> FALSE]
    /\ th = [t \in Threads |-> IdleTh]
    /\ faults = 0
    /\ bucketOps = 0
    /\ hist = [id \in ItemIDs |-> NilMessage]
    /\ dirty = {}
    /\ prevDel = EmptyID
    /\ snap = NoSnap

Init == InitWith(StoredConfigs)
\* Storage on which no packer was ever opened.
InitFresh == InitWith({NoConfigEntry})

\* The first packer of a behaviour.
OpenPacker(t) == gen = 0 /\ NewStoragePackerV2(t, FALSE, ConfigInputs)

\* The first packer, opened with a zero Config (the defaults apply); the
\* read of the stored config may fail.
DefaultConfigInput == [BaseBucketBits |-> 0, BucketShardBits |-> 0]
OpenDefault(t) == gen = 0 /\ NewStoragePackerV2(t, TRUE, {DefaultConfigInput})

\* One caller and one packer, no injected I/O errors: the item operations
\* and queue mode.
NextItems ==
    \/ OpenPacker(1)
    \/ CallPutItem(1, Messages)
    \/ CallGetItem(1)
    \/ CallDeleteItem(1)
    \/ KeySecond(1)
    \/ ItemLock(1, TRUE)
    \/ ItemGet(1, FALSE)
    \/ ItemBucket(1, TRUE)
    \/ ItemPut(1, FALSE)
    \/ SetQueueMode(1)
    \/ CallFlushQueue(1)
    \/ FlushNext(1)
    \/ FlushPut(1, FALSE)
    \/ Return(1, TRUE)

SpecItems == Init /\ [][NextItems]_vars

\* One caller, packers opened one after another on the same storage with any
\* configuration, no injected I/O errors: the item operations and queue mode.
NextReopen ==
    \/ NewStoragePackerV2(1, FALSE, ConfigInputs)
    \/ CallPutItem(1, {"m1"})
    \/ CallGetItem(1)
    \/ CallDeleteItem(1)
    \/ KeySecond(1)
    \/ ItemLock(1, TRUE)
    \/ ItemGet(1, FALSE)
    \/ ItemBucket(1, TRUE)
    \/ ItemPut(1, FALSE)
    \/ SetQueueMode(1)
    \/ CallFlushQueue(1)
    \/ FlushNext(1)
    \/ FlushPut(1, FALSE)
    \/ Return(1, TRUE)

SpecReopen == Init /\ [][NextReopen]_vars

\* A later packer opened with the configuration of the one before it.
ReopenSame(t) == gen > 0 /\ NewStoragePackerV2(t, FALSE, {cfg})

\* One caller, queue mode off throughout, no injected I/O errors: PutItem and
\* GetItem, and restarts that keep the configuration.
NextRestart ==
    \/ OpenPacker(1)
    \/ ReopenSame(1)
    \/ CallPutItem(1, Messages)
    \/ CallGetItem(1)
    \/ KeySecond(1)
    \/ ItemLock(1, TRUE)
    \/ ItemGet(1, FALSE)
    \/ ItemBucket(1, TRUE)
    \/ ItemPut(1, FALSE)
    \/ Return(1, TRUE)

SpecRestart == InitFresh /\ [][NextRestart]_vars

\* Several callers at once on one packer opened with the defaults, queue mode
\* off, no injected I/O errors: the item operations, step by step.
OpenQuiet(t) == gen = 0 /\ NewStoragePackerV2(t, FALSE, {DefaultConfigInput})

NextConc ==
    \/ OpenQuiet(1)
    \/ \E t \in Threads :
        \/ CallPutItem(t, Messages)
        \/ CallGetItem(t)
        \/ CallDeleteItem(t)
        \/ KeySecond(t)
        \/ ItemLock(t, TRUE)
        \/ ItemGet(t, FALSE)
        \/ ItemBucket(t, TRUE)
        \/ ItemPut(t, FALSE)
        \/ Return(t, TRUE)

SpecConc == InitFresh /\ [][NextConc]_vars

\* One caller, every operation of the packer, restarts, and injected
\* backend I/O errors.
Next ==
    \/ OpenDefault(1)
    \/ CallPutItem(1, {"m1"})
    \/ CallGetItem(1)
    \/ CallDeleteItem(1)
    \/ KeySecond(1)
    \/ ItemLock(1, FALSE)
    \/ ItemGet(1, TRUE)
    \/ ItemBucket(1, FALSE)
    \/ ItemPut(1, TRUE)
    \/ CallPutBucket(1)
    \/ PutBucketLock(1)
    \/ PutBucketStore(1, FALSE)
    \/ PutBucketPut(1, TRUE)
    \/ ShardBucket(1)
    \/ CallGetBucket(1)
    \/ GetBucketRLock(1)
    \/ GetBucketLock(1)
    \/ GetBucketGet(1, TRUE)
    \/ CallDeleteBucket(1)
    \/ DeleteBucketLock(1)
    \/ DeleteBucketDel(1, TRUE)
    \/ CallBucketKeys(1)
    \/ BucketKeysList(1, TRUE)
    \/ BucketKeysWalk(1)
    \/ SetQueueMode(1)
    \/ CallFlushQueue(1)
    \/ FlushNext(1)
    \/ FlushPut(1, TRUE)
    \/ Return(1, FALSE)

Spec == InitFresh /\ [][Next]_vars

(***************************************************************************)
(* Reads from a backend that an earlier deployment filled: an entry may be *)
(* missing, hold a bucket, or hold bytes that do not decode.               *)
(***************************************************************************)
CorruptValue == [comp |-> "garbage", Key |-> <<>>, ItemMap |-> EmptyMap,
                 Buckets |-> EmptyMap]
StoredValues(key) ==
    {EncodeBucket(NewBucket(key, [x \in {"ia"} |-> "m1"], EmptyMap)), CorruptValue}
StoredInputs ==
    {EmptyMap} \cup
    UNION {[{key} -> StoredValues(key)] : key \in {<<"0", "0">>, <<"0">>}}

InitRead ==
    /\ bucketStore \in StoredInputs
    /\ configStore = NoConfigEntry
    /\ gen = 0
    /\ cfg = [BaseBucketBits |-> 0, BucketShardBits |-> 0]
    /\ bucketsCache = EmptyMap
    /\ heap = EmptyMap
    /\ queueMode = 0
    /\ queuedBuckets = EmptyMap
    /\ poolW = [l \in Locks |-> 0]
    /\ poolR = [l \in Locks |-> {}]
    /\ poolLeak = [l \in Locks |-> FALSE]
    /\ th = [t \in Threads |-> IdleTh]
    /\ faults = 0
    /\ bucketOps = 0
    /\ hist = [id \in ItemIDs |-> NilMessage]
    /\ dirty = {}
    /\ prevDel = EmptyID
    /\ snap = NoSnap

NextRead ==
    \/ OpenDefault(1)
    \/ CallGetItem(1)
    \/ KeySecond(1)
    \/ ItemLock(1, FALSE)
    \/ ItemGet(1, TRUE)
    \/ ItemBucket(1, FALSE)
    \/ CallGetBucket(1)
    \/ GetBucketRLock(1)
    \/ GetBucketLock(1)
    \/ GetBucketGet(1, TRUE)
    \/ Return(1, FALSE)

SpecRead == InitRead /\ [][NextRead]_vars

(***************************************************************************)
(* The order of lock and storage calls.  The actions above take each       *)
(* lookup, insert, delete or walk of the index as one step.  Here every    *)
(* operation is the sequence of the calls it makes on the index lock       *)
(* (bucketsCacheLock), the radix tree, the pool locks, the bucket's lock,  *)
(* the backend and the pending writes, one sequence per path through its   *)
(* code; a thread performs them one by one (its locals events, last and    *)
(* held).                                                                  *)
(***************************************************************************)
Cat(A, B) == {a \o b : a \in A, b \in B}

\* s.bucketsCacheLock.RLock(); <tree call>; s.bucketsCacheLock.RUnlock()
IndexRead(call) == <<"index.RLock", call, "index.RUnlock">>
\* s.bucketsCacheLock.Lock(); <tree call>; s.bucketsCacheLock.Unlock()
IndexWrite(call) == <<"index.Lock", call, "index.Unlock">>

LongestPrefixEvents == IndexRead("tree.LongestPrefix")
InsertEvents == IndexWrite("tree.Insert")

\* BucketStorageKeyForItemID: a hit in the first lookup, or the second lookup
\* under the pool's read lock.
KeyEvents ==
    {LongestPrefixEvents,
     LongestPrefixEvents \o <<"pool.RLock">> \o LongestPrefixEvents
        \o <<"pool.RUnlock">>}

\* storeBucket: the pending writes with the flag on, else proto.Marshal of
\* the bucket (a read of its items) and the backend put.
StoreEvents == {<<"queue.Store">>, <<"items.Marshal", "backend.Put">>}

\* bucket.Lock(); defer bucket.Unlock(); the upsert or the delete on
\* bucket.ItemMap; storeBucket
LockedStoreEvents ==
    Cat({<<"bucket.Lock", "items.write">>}, Cat(StoreEvents, {<<"bucket.Unlock">>}))

\* PutItem: argument error; else key, pool lock, lookup, then the bucket
\* found, the backend read failing, or the read followed by the insert.
PutItemEvents ==
    {<<>>} \cup
    Cat(KeyEvents, Cat({<<"pool.Lock">> \o LongestPrefixEvents},
        Cat(LockedStoreEvents
              \cup {<<"backend.Get">>}
              \cup Cat({<<"backend.Get">> \o InsertEvents}, LockedStoreEvents),
            {<<"pool.Unlock">>})))

\* DeleteItem: as PutItem, with the returns for a missing entry and for an
\* item that is not there.
DeleteItemEvents ==
    {<<>>} \cup
    Cat(KeyEvents, Cat({<<"pool.Lock">> \o LongestPrefixEvents},
        Cat(LockedStoreEvents
              \cup {<<"bucket.Lock", "items.read", "bucket.Unlock">>}
              \cup {<<"backend.Get">>}
              \cup Cat({<<"backend.Get">> \o InsertEvents},
                       LockedStoreEvents \cup {<<"bucket.Lock", "items.read", "bucket.Unlock">>}),
            {<<"pool.Unlock">>})))

GetItemEvents ==
    {<<>>} \cup
    Cat(KeyEvents, Cat({<<"pool.RLock">> \o LongestPrefixEvents},
        Cat({<<"bucket.RLock", "items.read", "bucket.RUnlock">>,
             <<"backend.Get">>,
             <<"backend.Get">> \o InsertEvents \o <<"bucket.RLock", "items.read", "bucket.RUnlock">>},
            {<<"pool.RUnlock">>})))

\* (GetBucketEventsHeld: the read of the backend made under the index lock.)
GetBucketEventsHeld ==
    {<<"pool.RLock">> \o LongestPrefixEvents \o <<"pool.RUnlock", "pool.Lock">>
        \o <<"index.Lock", "backend.Get", "tree.Insert", "index.Unlock">>
        \o <<"pool.Unlock">>}

GetBucketEvents ==
    {<<>>,
     <<"pool.RLock">> \o LongestPrefixEvents \o <<"pool.RUnlock">>} \cup
    Cat({<<"pool.RLock">> \o LongestPrefixEvents \o <<"pool.RUnlock", "pool.Lock">>
            \o LongestPrefixEvents},
        Cat({<<>>, <<"backend.Get">>, <<"backend.Get">> \o InsertEvents},
            {<<"pool.Unlock">>}))

\* PutBucket: shardBucket's lock.RLock() comes after the failed put.
PutBucketEvents ==
    {<<>>} \cup
    Cat({<<"pool.Lock", "bucket.Lock">>},
        Cat(Cat(StoreEvents, {InsertEvents})
              \cup {<<"items.Marshal", "backend.Put">>}
              \cup {<<"items.Marshal", "backend.Put", "pool.RLock">> \o InsertEvents},
            {<<"bucket.Unlock", "pool.Unlock">>}))

DeleteBucketEvents ==
    {<<>>,
     <<"pool.Lock", "backend.Delete", "pool.Unlock">>,
     <<"pool.Lock", "backend.Delete">> \o IndexWrite("tree.Delete")
        \o <<"pool.Unlock">>}

BucketKeysEvents ==
    {<<"backend.List">>, <<"backend.List">> \o IndexRead("tree.Walk")}

\* FlushQueue: per pending bucket, storeBucket and queuedBuckets.Delete.
FlushQueueEvents ==
    {<<>>} \cup Cat({<<"queue.Range">>}, Cat(StoreEvents, {<<"queue.Delete">>}))

EventOps ==
    {"PutItem", "DeleteItem", "GetItem", "GetBucket", "PutBucket",
     "DeleteBucket", "BucketKeys", "FlushQueue"}

EventPaths(op) ==
    CASE op = "PutItem" -> PutItemEvents
      [] op = "DeleteItem" -> DeleteItemEvents
      [] op = "GetItem" -> GetItemEvents
      [] op = "GetBucket" -> GetBucketEvents
      [] op = "PutBucket" -> PutBucketEvents
      [] op = "DeleteBucket" -> DeleteBucketEvents
      [] op = "BucketKeys" -> BucketKeysEvents
      [] OTHER -> FlushQueueEvents

\* The lock an event takes or releases, and what it leaves held: the kinds
\* of the locks held, and the calls that took them.
EventLock(e) ==
    IF e \in {"index.RLock", "index.Lock", "index.RUnlock", "index.Unlock"} THEN "index"
    ELSE IF e \in {"pool.RLock", "pool.Lock", "pool.RUnlock", "pool.Unlock"} THEN "pool"
    ELSE IF e \in {"bucket.RLock", "bucket.Lock", "bucket.RUnlock", "bucket.Unlock"}
    THEN "bucket" ELSE "none"
IsAcquire(e) ==
    e \in {"index.RLock", "index.Lock", "pool.RLock", "pool.Lock",
           "bucket.RLock", "bucket.Lock"}
HeldAfter(held, e) ==
    IF EventLock(e) = "none" THEN held
    ELSE IF IsAcquire(e) THEN held \cup {EventLock(e), e}
    ELSE {l \in held : l # EventLock(e) /\ EventLock(l) # EventLock(e)}

CallEvents(t) ==
    /\ Idle(t) /\ gen > 0
    /\ \E op \in EventOps : \E path \in EventPaths(op) :
        th' = SetTh(t, [IdleTh EXCEPT !.pc = "ev", !.op = op, !.events = path])
    /\ UNCHANGED <<storeVars, packerVars, heap, lockVars, boundVars, ghostVars>>

DoEvent(t) ==
    LET r == th[t]
    IN  /\ r.pc = "ev" /\ r.events # <<>>
        /\ th' = SetTh(t, [r EXCEPT !.events = Tail(@), !.last = Head(r.events),
                                    !.held = HeldAfter(@, Head(r.events))])
        /\ UNCHANGED <<storeVars, packerVars, heap, lockVars, boundVars, ghostVars>>

EndEvents(t) ==
    LET r == th[t]
    IN  /\ r.pc = "ev" /\ r.events = <<>>
        /\ th' = SetTh(t, [r EXCEPT !.pc = "ret"])
        /\ UNCHANGED <<storeVars, packerVars, heap, lockVars, boundVars, ghostVars>>

NextLocks ==
    \/ OpenQuiet(1)
    \/ CallEvents(1)
    \/ DoEvent(1)
    \/ EndEvents(1)
    \/ Return(1, FALSE)

SpecLocks == InitFresh /\ [][NextLocks]_vars

(***************************************************************************)
(* Two packers with the same configuration, each on an empty backend of    *)
(* its own, each given PutItem calls for distinct ids.  The first run's    *)
(* outcome is recorded when the second packer and its backend take over.   *)
(***************************************************************************)
\* A PutItem for an id this packer was not given before.
CallPutItemOnce(t) ==
    /\ CallPutItem(t, Messages)
    /\ th'[t].id \in ItemIDs
    /\ hist[th'[t].id] = NilMessage

\* The second packer: NewStoragePackerV2 with the same Config on another
\* empty backend.
SecondBackend ==
    /\ \A t \in Threads : Idle(t)
    /\ gen = 1 /\ gen < MaxPackers /\ ~snap.taken
    /\ snap' = [NoSnap EXCEPT
                  !.taken = TRUE, !.calls = hist, !.keys = DOMAIN bucketStore,
                  !.holders = [id \in ItemIDs |-> StoredHolders(bucketStore, id)]]
    /\ bucketStore' = EmptyMap
    /\ gen' = gen + 1
    /\ bucketsCache' = EmptyMap
    /\ heap' = EmptyMap
    /\ queueMode' = 0
    /\ queuedBuckets' = EmptyMap
    /\ poolW' = [l \in Locks |-> 0]
    /\ poolR' = [l \in Locks |-> {}]
    /\ poolLeak' = [l \in Locks |-> FALSE]
    /\ hist' = [id \in ItemIDs |-> NilMessage]
    /\ dirty' = {}
    /\ prevDel' = EmptyID
    /\ UNCHANGED <<configStore, cfg, th, boundVars>>

NextOrder ==
    \/ OpenQuiet(1)
    \/ CallPutItemOnce(1)
    \/ KeySecond(1)
    \/ ItemLock(1, TRUE)
    \/ ItemGet(1, FALSE)
    \/ ItemBucket(1, TRUE)
    \/ ItemPut(1, FALSE)
    \/ Return(1, TRUE)
    \/ SecondBackend

SpecOrder == InitFresh /\ [][NextOrder]_vars

(***************************************************************************)
(* FlushQueue called under observation: the call records the backend, the  *)
(* index and the queue it meets, and whether it follows straight on a      *)
(* FlushQueue call that returned.  Nothing but this call runs afterwards.  *)
(***************************************************************************)
CallFlushQueueWatched(t) ==
    /\ gen > 0 /\ ~snap.taken
    /\ Idle(t) \/ (th[t].pc = "ret" /\ th[t].op = "FlushQueue")
    /\ th' = SetTh(t, [IdleTh EXCEPT !.op = "FlushQueue", !.pc = "fl_next",
                                     !.todo = DOMAIN queuedBuckets])
    /\ heap' = Collect(heap, bucketsCache, queuedBuckets, th')
    /\ snap' = [NoSnap EXCEPT
                  !.taken = TRUE, !.second = ~Idle(t), !.store = bucketStore,
                  !.index = [k \in DOMAIN bucketsCache |-> heap[bucketsCache[k]]],
                  !.queue = [k \in DOMAIN queuedBuckets |-> heap[queuedBuckets[k]]]]
    /\ prevDel' = EmptyID
    /\ UNCHANGED <<storeVars, packerVars, lockVars, boundVars, hist, dirty>>

NextFlush ==
    \/ ~snap.taken /\ NextItems
    \/ ~snap.taken /\ FlushPut(1, TRUE)
    \/ CallFlushQueueWatched(1)
    \/ snap.taken /\ FlushNext(1)
    \/ snap.taken /\ FlushPut(1, TRUE)
    \/ snap.taken /\ Return(1, TRUE)

SpecFlush == InitFresh /\ [][NextFlush]_vars

(***************************************************************************)
(* A deleted bucket under observation: once a DeleteBucket call has        *)
(* returned success its key is recorded, and from then on the caller only  *)
(* sets the queue mode and calls FlushQueue: no PutItem and no PutBucket   *)
(* follows.                                                                *)
(***************************************************************************)
NextDeleted ==
    \/ ~snap.taken /\ Next
    \/ /\ ~snap.taken
       /\ th[1].pc = "ret" /\ th[1].op = "DeleteBucket" /\ th[1].err = ErrNil
       /\ snap' = [NoSnap EXCEPT !.taken = TRUE, !.keys = {th[1].key}]
       /\ UNCHANGED <<storeVars, packerVars, heap, lockVars, th, boundVars,
                      hist, dirty, prevDel>>
    \/ snap.taken /\ SetQueueMode(1)
    \/ snap.taken /\ CallFlushQueue(1)
    \/ snap.taken /\ FlushNext(1)
    \/ snap.taken /\ FlushPut(1, TRUE)
    \/ snap.taken /\ Return(1, FALSE)

SpecDeleted == InitFresh /\ [][NextDeleted]_vars

(***************************************************************************)
(* Views of the state used by the properties.                              *)
(***************************************************************************)
\* What a GetItem(id) that runs alone returns in this state.
GetItemView(id) ==
    IF LongestPrefixFound(bucketsCache, HashHex(id))
    THEN Lookup(heap[bucketsCache[LongestPrefixKey(bucketsCache, HashHex(id))]], id)
    ELSE IF BaseCacheKey(id) \in DOMAIN bucketStore
              /\ DecodeOK(bucketStore[BaseCacheKey(id)])
    THEN Lookup(bucketStore[BaseCacheKey(id)], id)
    ELSE NilMessage

\* What the bucket stored in the backend under key holds for id.
StoredView(key, id) ==
    IF key \in DOMAIN bucketStore /\ DecodeOK(bucketStore[key])
    THEN Lookup(bucketStore[key], id)
    ELSE NilMessage

AllIdle == \A t \in Threads : Idle(t)
Returned(t, op) == th[t].pc = "ret" /\ th[t].op = op

\* n is a positive multiple of four.
PositiveMultipleOfFour(n) == n >= 4 /\ n % 4 = 0

(***************************************************************************)
(* Properties.                                                             *)
(***************************************************************************)

\* C1: round trip on one packer.  Whatever PutItem, DeleteItem, GetItem,
\* SetQueueMode and FlushQueue calls came before, a GetItem(id) returns
\* without error the message of the most recent PutItem(id), and nil when
\* the most recent of the PutItem(id) and DeleteItem(id) calls is a
\* DeleteItem or there was none.
C1_RoundTrip ==
    (Returned(1, "GetItem") /\ th[1].id \in ItemIDs)
        => (th[1].err = ErrNil /\ th[1].val = hist[th[1].id])

\* C1 witness: with queue mode on, GetItem returns "m2" for an id whose
\* stored bucket still holds "m1" for it.
C1_Witness ==
    /\ Returned(1, "GetItem") /\ th[1].id \in ItemIDs
    /\ th[1].val = "m2" /\ queueMode = 1
    /\ StoredView(BaseCacheKey(th[1].id), th[1].id) = "m1"

\* C2: durability across a restart.  On a second (or later) packer opened on
\* the same storage with the same configuration, queue mode never on,
\* GetItem(id) returns the last-written message for every id that was put.
C2_DurableAcrossRestart ==
    (gen >= 2 /\ Returned(1, "GetItem") /\ th[1].id \in ItemIDs
        /\ hist[th[1].id] # NilMessage)
        => (th[1].err = ErrNil /\ th[1].val = hist[th[1].id])

\* C3: when the backend put of a PutItem or PutBucket fails with the
\* too-large error the call splits the bucket and does not return that
\* error; when a backend call of it fails otherwise the call returns the
\* error.
C3_TooLargeSplits ==
    \A t \in {1} :
        (th[t].pc = "ret" /\ th[t].op \in {"PutItem", "PutBucket"})
            => /\ th[t].tooLarge => (th[t].sharded /\ ~IsTooLarge(th[t].err))
               /\ th[t].fault => th[t].err = ErrIO

\* C4: last writer wins.  While a PutItem or DeleteItem is between taking
\* and releasing the pool lock of its bucket it is the one writer of that
\* lock; and once all calls have returned, GetItem(id) yields what the call
\* on id that took the lock last wrote, and so does the stored bucket
\* whenever the bucket in memory fits the backend (its put did not fail).
C4_LastWriterWins ==
    /\ \A t \in Threads :
        (th[t].pc \in {"get", "bucket", "put"} /\ th[t].op \in {"PutItem", "DeleteItem"})
            => poolW[LockForKey(th[t].cacheKey)] = t
    /\ AllIdle /\ gen > 0 =>
        \A id \in ItemIDs :
            /\ GetItemView(id) = hist[id]
            /\ \A ck \in DOMAIN bucketsCache :
                (IsPrefix(ck, HashHex(id))
                    /\ BackendPutErr(EncodeBucket(heap[bucketsCache[ck]])) = ErrNil)
                    => StoredView(heap[bucketsCache[ck]].Key, id) = hist[id]

\* C4 witness: a PutItem holds the pool lock and is at its backend put while
\* a DeleteItem of the same id waits for that lock.
C4_Witness ==
    /\ th[1].pc = "put" /\ th[1].op = "PutItem"
    /\ th[2].pc = "lock" /\ th[2].op = "DeleteItem"
    /\ th[1].id = th[2].id

\* C5: once a packer was opened with BaseBucketBits 8 and items were
\* written, every packer opened later on the same storage has the effective
\* BaseBucketBits 8, whatever its configuration asks for.
C5_BaseBitsKept ==
    [][(gen >= 1 /\ cfg.BaseBucketBits = 8 /\ bucketStore # EmptyMap
            /\ gen' = gen + 1)
        => cfg'.BaseBucketBits = 8]_vars

\* C6: after NewStoragePackerV2 returns without error the config view holds
\* an entry under "config" that records the effective base_bucket_bits.
C6_ConfigPersisted ==
    (Returned(1, "New") /\ th[1].err = ErrNil)
        => (configStore.present
            /\ configStore.base_bucket_bits = cfg.BaseBucketBits)

\* C7: NewStoragePackerV2 returns an error exactly when the effective
\* BaseBucketBits or BucketShardBits is not a positive multiple of four, and
\* the configuration of every opened packer has both as positive multiples
\* of four.
C7_ConfigValidated ==
    /\ gen > 0 => (PositiveMultipleOfFour(cfg.BaseBucketBits)
                   /\ PositiveMultipleOfFour(cfg.BucketShardBits))
    /\ Returned(1, "New") =>
        (th[1].err = ErrNil <=> (PositiveMultipleOfFour(th[1].cbase)
                                 /\ PositiveMultipleOfFour(th[1].cshard)))

\* C7 witness: NewStoragePackerV2 refused a BaseBucketBits that is a
\* multiple of four but below 4.
C7_Witness ==
    Returned(1, "New") /\ th[1].err # ErrNil /\ th[1].cbase = -4

\* C8: a DeleteItem(id) of an id that is not stored returns success, never
\* reaches a backend put and leaves the stored buckets and the pending
\* writes as they are; a DeleteItem(id) right after a successful
\* DeleteItem(id) also leaves the index, the buckets in memory and the queue
\* flag as they are, and ends with no pool lock held.
C8_IdempotentDelete ==
    [][/\ (th[1].op = "DeleteItem" /\ th[1].id \in ItemIDs /\ ~th[1].stored0)
            => /\ bucketStore' = bucketStore
               /\ queuedBuckets' = queuedBuckets
               /\ th'[1].pc # "put"
               /\ th'[1].pc = "ret" => th'[1].err = ErrNil
       /\ (th[1].op = "DeleteItem" /\ th[1].id \in ItemIDs /\ th[1].id = prevDel)
            => /\ UNCHANGED <<bucketStore, queuedBuckets, bucketsCache, heap,
                              queueMode>>
               /\ th'[1].pc # "put"
               /\ th'[1].pc = "ret" =>
                    (th'[1].err = ErrNil /\ \A l \in Locks : poolW'[l] = 0)
      ]_vars

\* C8 witness: with queue mode on, a second DeleteItem in a row of an id the
\* stored bucket still holds has returned.
C8_Witness ==
    /\ Returned(1, "DeleteItem") /\ th[1].id \in ItemIDs /\ th[1].id = prevDel
    /\ queueMode = 1
    /\ StoredView(BaseCacheKey(th[1].id), th[1].id) # NilMessage

\* C9: while the queue-mode flag is set no call is at a backend put and no
\* stored bucket is written; a PutItem, DeleteItem or PutBucket that stores
\* its bucket then leaves it in the pending writes under its key and returns
\* success.
C9_QueueModeNoPut ==
    [][queueMode = 1 =>
        /\ th'[1].pc \notin {"put", "pb_put", "fl_put"}
        /\ \A k \in DOMAIN bucketStore' :
                k \in DOMAIN bucketStore /\ bucketStore'[k] = bucketStore[k]
        /\ (th[1].pc \in {"bucket", "pb_bucket"} /\ th'[1].pc = "ret"
                /\ th[1].op # "GetItem"
                /\ ~(th[1].op = "DeleteItem" /\ DeleteIsNoop(heap[th[1].h], th[1].id)))
            => LET h == IF th[1].op = "PutBucket" THEN th[1].arg ELSE th[1].h
               IN  /\ heap[h].Key \in DOMAIN queuedBuckets'
                   /\ queuedBuckets'[heap[h].Key] = h
                   /\ th'[1].err = ErrNil
      ]_vars

\* C9 witness: with the flag set a PutItem has returned success, its bucket
\* is pending, and the backend holds nothing for the id.
C9_Witness ==
    /\ Returned(1, "PutItem") /\ th[1].err = ErrNil /\ queueMode = 1
    /\ th[1].h # 0
    /\ heap[th[1].h].Key \in DOMAIN queuedBuckets
    /\ StoredView(heap[th[1].h].Key, th[1].id) = NilMessage

\* C10: once FlushQueue has returned without error, every bucket that was
\* stored while queue mode was on has a backend entry that holds what the
\* bucket holds in memory.
C10_FlushSyncs ==
    (Returned(1, "FlushQueue") /\ th[1].err = ErrNil) =>
        \A k \in dirty :
            GetCacheKey(k) \in DOMAIN bucketsCache =>
                /\ k \in DOMAIN bucketStore
                /\ bucketStore[k].ItemMap = heap[bucketsCache[GetCacheKey(k)]].ItemMap

\* The buckets of the index that hold id.
IndexHolders(id) ==
    {ck \in DOMAIN bucketsCache : id \in DOMAIN heap[bucketsCache[ck]].ItemMap}

\* p is a prefix of s and shorter.
IsProperPrefix(p, s) == IsPrefix(p, s) /\ Len(p) < Len(s)

\* C11: no two keys of the bucket index are such that one is a proper prefix
\* of the other, whatever PutItem, GetItem, DeleteItem, GetBucket, PutBucket
\* and DeleteBucket calls were made.
C11_DisjointCoverage ==
    \A k1 \in DOMAIN bucketsCache : \A k2 \in DOMAIN bucketsCache :
        ~IsProperPrefix(k1, k2)

\* C12: every item id that a bucket of the index holds is held by exactly
\* one bucket of the index, and that bucket's cache key is a prefix of the
\* id's hex digest.
C12_UniquePlacement ==
    \A id \in ItemIDs :
        IndexHolders(id) # {} =>
            /\ Cardinality(IndexHolders(id)) = 1
            /\ \A ck \in IndexHolders(id) : IsPrefix(ck, HashHex(id))

\* The call in r ends with the error of its backend put or delete.
WriteFailed(r) ==
    /\ r.op \in {"PutItem", "DeleteItem", "PutBucket", "DeleteBucket"}
    /\ r.err \in {ErrIO, ErrValueTooLarge}
    /\ r.op \in {"PutItem", "DeleteItem"} => r.h # 0

\* C13: when PutItem, DeleteItem, PutBucket or DeleteBucket returns the error
\* of a failed backend put or delete, the index has the keys it had before
\* the call, each with the bucket it had.
C13_FailedWriteKeepsIndex ==
    (th[1].pc = "ret" /\ WriteFailed(th[1])) => ~th[1].indexed

\* C14: when GetItem or GetBucket returns an error (the backend get failed or
\* the stored bytes did not decode) or finds no backend entry, the call has
\* inserted no key into the index.
C14_FailedReadKeepsIndex ==
    (th[1].pc = "ret" /\ th[1].op \in {"GetItem", "GetBucket"}
        /\ (th[1].err # ErrNil \/ th[1].absent))
        => ~th[1].indexed

\* C14 witness: a GetBucket has returned the decode error of a stored entry.
C14_Witness ==
    /\ Returned(1, "GetBucket") /\ th[1].err = ErrDecode
    /\ th[1].key \in DOMAIN bucketStore
    /\ th[1].cacheKey \notin DOMAIN bucketsCache

\* Thread t takes a pool lock in this step: as writer, as reader, or as the
\* reader that shardBucket never releases.
TakesPoolLock(t) ==
    \E l \in Locks :
        \/ poolW'[l] = t /\ poolW[l] # t
        \/ t \in poolR'[l] /\ t \notin poolR[l]
        \/ poolLeak'[l] /\ ~poolLeak[l] /\ th[t].pc = "pb_shard"

\* Thread t holds the lock of some bucket.
HoldsBucketLock(t) ==
    \E h \in DOMAIN heap : heap[h].wl = t \/ t \in heap[h].rl

\* C15: in PutItem, GetItem, DeleteItem, PutBucket with the split it
\* triggers, GetBucket and DeleteBucket, a thread that holds a bucket's own
\* lock takes no pool lock.
C15_PoolBeforeBucket ==
    [][\A t \in {1} : TakesPoolLock(t) => ~HoldsBucketLock(t)]_vars

\* C16: a thread that holds the index lock makes exactly one call on the
\* tree and then releases the lock: under it there is no backend get, put,
\* delete or list and no pool lock or bucket lock is taken, and no
\* operation returns with it.
C16_IndexLockStructural ==
    [][/\ "index" \in th[1].held =>
            IF th[1].last \in {"index.RLock", "index.Lock"}
            THEN th'[1].last \in {"tree.LongestPrefix", "tree.Insert",
                                  "tree.Delete", "tree.Walk"}
            ELSE th'[1].last \in {"index.RUnlock", "index.Unlock"}
       /\ th'[1].pc = "ret" => "index" \notin th'[1].held
      ]_vars

\* C16 witness: PutItem is inside its insert, under the index lock and the
\* pool lock, after the backend read.
C16_Witness ==
    /\ th[1].op = "PutItem" /\ th[1].last = "tree.Insert"
    /\ {"index", "pool"} \subseteq th[1].held

\* C17: when the second packer was given the same PutItem calls as the
\* first, in whatever order, its backend ends with the keys the first one's
\* had, and every id is held by the stored buckets of the same keys.
C17_OrderIndependent ==
    (snap.taken /\ AllIdle /\ hist = snap.calls) =>
        /\ DOMAIN bucketStore = snap.keys
        /\ \A id \in ItemIDs : StoredHolders(bucketStore, id) = snap.holders[id]

\* C18: a key leaves the backend or the index only in a step of
\* DeleteBucket; DeleteItem removes neither, also when it removes the last
\* item of a bucket.
C18_OnlyDeleteBucketRemoves ==
    [][((DOMAIN bucketStore) \ (DOMAIN bucketStore') # {}
            \/ (DOMAIN bucketsCache) \ (DOMAIN bucketsCache') # {})
        => th[1].op = "DeleteBucket"]_vars

\* C18 witness: a DeleteItem has removed the last item of its bucket and
\* returned; the bucket is in the index and, empty, in the backend.
C18_Witness ==
    /\ Returned(1, "DeleteItem") /\ th[1].err = ErrNil /\ th[1].stored0
    /\ th[1].h # 0
    /\ heap[th[1].h].ItemMap = EmptyMap
    /\ th[1].cacheKey \in DOMAIN bucketsCache
    /\ heap[th[1].h].Key \in DOMAIN bucketStore
    /\ bucketStore[heap[th[1].h].Key].ItemMap = EmptyMap

\* The call in r was made with an invalid argument: a nil item or an empty
\* id, an empty bucket key, a nil bucket or a bucket with an empty key.
InvalidCall(r) ==
    \/ r.op \in {"PutItem", "GetItem", "DeleteItem"} /\ r.id = EmptyID
    \/ r.op \in {"GetBucket", "DeleteBucket"} /\ r.key = <<>>
    \/ r.op = "PutBucket" /\ r.arg = 0

\* C19: a PutItem, GetItem, DeleteItem, GetBucket, DeleteBucket or PutBucket
\* called with an invalid argument returns an error at once, and leaves the
\* backend, the index, the buckets with their locks, the pending writes and
\* the pool locks as they were.
C19_InvalidArgumentRejected ==
    [][(Idle(1) /\ ~Idle(1)' /\ InvalidCall(th'[1])) =>
        /\ th'[1].pc = "ret" /\ th'[1].err # ErrNil
        /\ UNCHANGED <<bucketStore, bucketsCache, heap, queuedBuckets,
                       poolW, poolR, poolLeak>>
      ]_vars

\* C19 witness: a PutBucket without a usable bucket has returned its error
\* on a packer whose index and backend hold buckets.
C19_Witness ==
    /\ Returned(1, "PutBucket") /\ th[1].arg = 0 /\ th[1].err = ErrInvalid
    /\ bucketsCache # EmptyMap /\ bucketStore # EmptyMap

\* C20: no bucket has both items and children; this holds after a split.
C20_LeafOrInternal ==
    \A h \in DOMAIN heap :
        ~(DOMAIN heap[h].ItemMap # {} /\ DOMAIN heap[h].Buckets # {})

\* C21: split fan-out.  A bucket a PutBucket call has split has exactly
\* 2^BucketShardBits children (16 for 4 shard bits), one for each hex label
\* of width BucketShardBits/4, and the key of each child is the key of the
\* parent extended by the label of the child.
C21_SplitFanOut ==
    (Returned(1, "PutBucket") /\ th[1].sharded) =>
        LET b      == heap[th[1].arg]
            width  == cfg.BucketShardBits \div 4
            labels == [1..width -> {HexChars[i] : i \in 1..16}]
        IN  /\ Cardinality(DOMAIN b.Buckets) = 2 ^ cfg.BucketShardBits
            /\ DOMAIN b.Buckets = labels
            /\ \A lab \in DOMAIN b.Buckets : b.Buckets[lab].Key = b.Key \o lab

\* C22: split redistribution.  After a PutBucket call has split a bucket,
\* every item (id, payload) the parent held is in exactly one child: the one
\* whose label is the next BucketShardBits/4 characters of the digest of the
\* id after the parent's prefix.  No item is lost.
C22_SplitRedistributes ==
    (Returned(1, "PutBucket") /\ th[1].sharded) =>
        LET b      == heap[th[1].arg]
            before == th[1].data.ItemMap
            from   == Len(GetCacheKey(b.Key))
            width  == cfg.BucketShardBits \div 4
        IN  \A id \in DOMAIN before :
                LET own == SubSeq(HashHex(id), from + 1, from + width)
                IN  /\ own \in DOMAIN b.Buckets
                    /\ \A lab \in DOMAIN b.Buckets :
                          (/\ id \in DOMAIN b.Buckets[lab].ItemMap
                           /\ b.Buckets[lab].ItemMap[id] = before[id])
                              <=> lab = own

\* C23: routing result.  When BucketStorageKeyForItemID(id) returns inside
\* an item operation, its result is the Key of the bucket at the index entry
\* that is the longest prefix of the digest of id if there is such an entry,
\* and the first BaseBucketBits/4 characters of the digest otherwise; and no
\* step of the routine changes the index or the backend.
C23_RoutingResult ==
    [][\A t \in Threads :
        LET d     == HashHex(th'[t].id)
            match == {k \in DOMAIN bucketsCache :
                        /\ IsPrefix(k, d)
                        /\ \A j \in DOMAIN bucketsCache :
                              IsPrefix(j, d) => Len(j) <= Len(k)}
        IN  /\ (th[t].pc \in {"idle", "key2"} /\ th'[t].pc = "lock"
                    /\ IsItemOp(th'[t].op))
                => /\ match # {} =>
                        \E k \in match :
                            th'[t].bucketKey = heap[bucketsCache[k]].Key
                   /\ match = {} =>
                        th'[t].bucketKey = SubSeq(d, 1, cfg.BaseBucketBits \div 4)
                   /\ bucketsCache' = bucketsCache /\ bucketStore' = bucketStore
            /\ (th[t].pc = "idle" /\ th'[t].pc = "key2")
                => (bucketsCache' = bucketsCache /\ bucketStore' = bucketStore)
      ]_vars

\* C23 witness: the routine has returned the key of the entry "00" while the
\* index also holds the shorter prefix "0" of the digest.
C23_Witness ==
    /\ th[1].pc = "lock" /\ IsItemOp(th[1].op)
    /\ {<<"0">>, <<"0", "0">>} \subseteq DOMAIN bucketsCache
    /\ th[1].bucketKey = <<"0", "0">>

\* C24: FlushQueue with queue mode off.  A call that meets an empty queue
\* makes no backend put and returns no error; and when a call follows
\* straight on a FlushQueue call that returned, the backend, the index and
\* the queue after it are what they were after the first call.
C24_FlushIdempotent ==
    (snap.taken /\ queueMode = 0) =>
        /\ snap.queue = EmptyMap =>
              /\ th[1].pc # "fl_put" /\ th[1].err = ErrNil
              /\ bucketStore = snap.store
        /\ (snap.second /\ th[1].pc \in {"ret", "idle"}) =>
              /\ bucketStore = snap.store
              /\ [k \in DOMAIN bucketsCache |-> heap[bucketsCache[k]]] = snap.index
              /\ [k \in DOMAIN queuedBuckets |-> heap[queuedBuckets[k]]] = snap.queue

\* C24 witness: the second of two FlushQueue calls in succession has
\* returned, with queue mode off, while the backend and the index hold a
\* bucket.
C24_Witness ==
    /\ snap.taken /\ snap.second /\ queueMode = 0
    /\ Returned(1, "FlushQueue")
    /\ snap.store # EmptyMap /\ snap.index # EmptyMap

\* C25: full locking order.  An operation takes a lock of one of the three
\* kinds only while it holds no lock of a later kind, the order being pool
\* lock, index lock, bucket's own lock; in particular none takes the index
\* lock while it holds a bucket's own lock.
C25_FullLockOrder ==
    [][LET e       == th'[1].last
           rank(l) == CASE l = "pool" -> 1 [] l = "index" -> 2 [] OTHER -> 3
       IN  (/\ th[1].pc = "ev" /\ th'[1].pc = "ev"
            /\ th'[1].events # th[1].events /\ IsAcquire(e))
              => \A l \in {"pool", "index", "bucket"} \cap th[1].held :
                    rank(l) <= rank(EventLock(e))
      ]_vars

\* C26: every operation releases what it locks.  A call of PutItem, GetItem,
\* DeleteItem, GetBucket, PutBucket or DeleteBucket that has returned has
\* left no pool lock and no bucket lock taken; a PutBucket whose put failed
\* as too large and ran the split included.
C26_ReleasesAndReturns ==
    LET ops == {"PutItem", "GetItem", "DeleteItem", "GetBucket", "PutBucket",
                "DeleteBucket"}
    IN  (th[1].pc = "ret" /\ th[1].op \in ops) =>
            /\ \A l \in Locks : poolW[l] = 0 /\ poolR[l] = {} /\ ~poolLeak[l]
            /\ \A h \in DOMAIN heap : heap[h].wl = 0 /\ heap[h].rl = {}

\* C27: bucket contents are accessed only under the bucket's lock.  Every
\* change of a bucket's items map is made with that bucket's lock held as
\* writer, and every read of it, the serialisation in storeBucket included
\* (also when FlushQueue calls it), with the lock held as reader or writer.
C27_ContentsUnderLock ==
    /\ th[1].last = "items.write" => "bucket.Lock" \in th[1].held
    /\ th[1].last \in {"items.read", "items.Marshal"} =>
          ("bucket.Lock" \in th[1].held \/ "bucket.RLock" \in th[1].held)

\* C28: PutItem and DeleteItem affect only their own id.  No step of a
\* PutItem(id) or DeleteItem(id) call, whether the call succeeds or fails,
\* changes what GetItem returns for another id, be it in the same bucket or
\* in another.
C28_OnlyOwnId ==
    [][\A t \in Threads :
        LET r == IF th[t].pc = "idle" THEN th'[t] ELSE th[t]
        IN  (th'[t] # th[t] /\ r.op \in {"PutItem", "DeleteItem"})
                => \A other \in ItemIDs \ {r.id} :
                        GetItemView(other)' = GetItemView(other)
      ]_vars

\* C28 witness: a DeleteItem(ia) has returned without error and without ia,
\* and ib is still held by a bucket of the index.
C28_Witness ==
    /\ Returned(1, "DeleteItem") /\ th[1].id = "ia" /\ th[1].err = ErrNil
    /\ th[1].stored0 /\ GetItemView("ia") = NilMessage
    /\ GetItemView("ib") = "m1"
    /\ LongestPrefixFound(bucketsCache, HashHex("ib"))

\* C29: a failed write is not observable.  When PutItem(id) or DeleteItem(id)
\* has returned the error of its failed backend put, the bucket in memory
\* holds for id what the stored bucket holds, and a GetItem(id) that
\* returned an item before a failed DeleteItem(id) still returns one.
C29_FailedWriteUnobservable ==
    (th[1].pc = "ret" /\ th[1].op \in {"PutItem", "DeleteItem"}
        /\ WriteFailed(th[1]))
        => /\ GetItemView(th[1].id) = StoredView(heap[th[1].h].Key, th[1].id)
           /\ (th[1].op = "DeleteItem" /\ th[1].stored0)
                => GetItemView(th[1].id) # NilMessage

\* C30: a deleted bucket stays deleted.  After DeleteBucket(key) has
\* returned success, and as long as no PutItem or PutBucket follows, the
\* backend has no entry under key: a FlushQueue does not create it again
\* from a write that was queued before the deletion.
C30_DeletedStaysDeleted ==
    snap.taken => \A key \in snap.keys : key \notin DOMAIN bucketStore

\* C31: GetBucket returns the bucket that was asked for.  For a non-empty
\* key and either value of skipCache, GetBucket(key, skipCache) returns an
\* error, nil, or a bucket whose Key is key; never a bucket of the index
\* that is kept under another, shorter key.
C31_GetBucketReturnsAsked ==
    (Returned(1, "GetBucket") /\ th[1].key # <<>>
        /\ th[1].err = ErrNil /\ th[1].h # 0)
        => heap[th[1].h].Key = th[1].key

\* C32: GetBucket does not change item visibility.  No step of a GetBucket
\* call, for any key and either value of skipCache, changes what GetItem
\* returns for any id; also when queue mode is on and the bucket of the
\* index holds items that are not yet in the backend.
C32_GetBucketKeepsItems ==
    [][\A t \in Threads :
        LET r == IF th[t].pc = "idle" THEN th'[t] ELSE th[t]
        IN  (th'[t] # th[t] /\ r.op = "GetBucket")
                => \A id \in ItemIDs : GetItemView(id)' = GetItemView(id)
      ]_vars

====
